---- MODULE Spec2Model ----
(***************************************************************************)
(* Cycle detection of cargo-workgraph (src/main.rs): build_nodes,          *)
(* detect_cycles_all, detect_cycle and the Cycle set they fill.            *)
(*                                                                         *)
(* A behaviour is one run of detect_cycles_all over a loaded workspace:    *)
(* for every node of the input list, in order, the graph is cloned, the    *)
(* recursive walk detect_cycle runs from that node, and the cycles the     *)
(* walk returns are inserted into a HashSet<Cycle>.                        *)
(***************************************************************************)
EXTENDS Naturals, Sequences, FiniteSets

\* ---------------------------------------------------------------- bounds
\* Package names of the modelled workspaces.
Packages == {"A", "B", "C"}

\* Largest number of (name, dep_type) dependencies in a workspace.
MaxEdges == 3

\* Deepest path stack a walk may build in the model; the walks of the code
\* stay strictly below it (DepthCapUnused).
MaxDepth == 6

\* ----------------------------------------------------------------- types
\* enum DependencyType
DependencyType == {"Regular", "Dev", "Build"}

\* enum State
NotProcessed == "NotProcessed"
Processed == "Processed"

\* struct Dependency { name, dep_type }
Dependency == [name : Packages, dep_type : DependencyType]

VARIABLES
    nodes,        \* the Vec<Node> of build_nodes: the package names, in order
    dependencies, \* Node::dependencies of every node: a set of Dependency
    iteration,    \* the order in which each node's HashSet<Dependency> iterates
    state,        \* Node::state of the nodes of the caller's Vec<Node>
    copy,         \* Node::state of the nodes of the current nodes.clone()
    root,         \* index in nodes of the current root (0: none yet)
    pc,           \* "start", "walk", "insert", "done"
    stack,        \* the open detect_cycle calls, outermost first
    found,        \* the Vec<Cycle> the current walk has collected
    inserted,     \* how many of found went through HashSet::insert
    cycles        \* the HashSet<Cycle> detect_cycles_all collects

vars == <<nodes, dependencies, iteration, state, copy, root, pc, stack, found,
          inserted, cycles>>

\* ------------------------------------------------------------- utilities
Range(s) == {s[i] : i \in 1..Len(s)}

\* All orders in which the elements of the finite set S can be listed.
RECURSIVE Orders(_)
Orders(S) ==
    IF S = {} THEN {<<>>}
    ELSE UNION {{<<x>> \o t : t \in Orders(S \ {x})} : x \in S}

\* All subsets of U with at most k elements.
RECURSIVE UpTo(_, _)
UpTo(U, k) ==
    IF k = 0 THEN {{}}
    ELSE LET smaller == UpTo(U, k - 1)
         IN  smaller \cup {s \cup {e} : s \in smaller, e \in U}

\* ------------------------------------------------------------ build_nodes
\* The workspaces: one, two or three packages.
Workspaces == {{"A"}, {"A", "B"}, {"A", "B", "C"}}

\* The declared dependencies a workspace W can have: build_nodes keeps the
\* dependencies whose name is the name of a crate of the workspace. It makes
\* Regular and Dev dependencies only; Build is drawn as well, since
\* detect_cycle takes any Dependency.
Declarations(W) == [from : W, name : W, dep_type : DependencyType]

\* Node::dependencies of the nodes of W for the declarations E: a HashSet, so
\* a (name, dep_type) pair is held once.
DependenciesOf(W, E) ==
    [n \in W |-> {[name |-> e.name, dep_type |-> e.dep_type] :
                     e \in {d \in E : d.from = n}}]

\* The orders in which the HashSet<Dependency> of every node of D may
\* iterate; a set iterates in the same order every time it is iterated in one
\* run.
RECURSIVE OrdersOver(_, _)
OrdersOver(deps, D) ==
    IF D = {} THEN {<<>>}
    ELSE LET n == CHOOSE m \in D : TRUE
         IN  {[m \in DOMAIN f \cup {n} |-> IF m = n THEN o ELSE f[m]] :
                 f \in OrdersOver(deps, D \ {n}), o \in Orders(deps[n])}

IterationOrders(deps) == OrdersOver(deps, DOMAIN deps)

\* ------------------------------------------------------------------ Node
\* Node::is_processed
is_processed(st, n) == st[n] = Processed

\* mark_processed that forgets to set the state.
mark_processed_forgotten(st, n) == st

\* Node::mark_processed
mark_processed(st, n) == [st EXCEPT ![n] = Processed]

\* Vec<Node>::contains: Node's PartialEq compares the name alone.
Contains(node_buffer, n) == \E i \in 1..Len(node_buffer) : node_buffer[i] = n

\* ----------------------------------------------------------------- Cycle
\* The value of `v.clone().sort()`: slice::sort sorts in place and returns ().
SortValue(v) == <<>>

\* Cycle::eq
CycleEq(a, b) == SortValue(a) = SortValue(b)

\* The derived Hash of Cycle hashes the Vec<Node>: its length and the names
\* of its nodes in order. Equal sequences have equal hashes; two different
\* sequences have equal hashes when the hasher collides on them (collide).
HashEq(a, b, collide) == a = b \/ collide

\* HashSet<Cycle>::insert: the value is dropped when the set holds a value of
\* equal hash that compares equal.
HashSetInsert(set, c, collide) ==
    IF \E e \in set : HashEq(e, c, collide) /\ CycleEq(e, c)
    THEN set
    ELSE set \cup {c}

\* ---------------------------------------------------------- detect_cycle
\* The condition of the cycle branch without its contains test.
IsCycleProcessedOnly(st, node_buffer, n) == is_processed(st, n)

\* The condition of the cycle branch.
IsCycle(st, node_buffer, n) == is_processed(st, n) /\ Contains(node_buffer, n)

\* The filter chosen before the node is pushed: every dependency when the
\* path stack is empty, every one but Dev otherwise.
EdgeFilter(node_buffer, dep) ==
    IF node_buffer = <<>> THEN TRUE ELSE dep.dep_type # "Dev"

\* The dependencies the fold visits, in iteration order.
EligibleIn(order, node_buffer, n) ==
    SelectSeq(order[n], LAMBDA dep : EdgeFilter(node_buffer, dep))

Eligible(node_buffer, n) == EligibleIn(iteration, node_buffer, n)

\* The open call of detect_cycle on node n, entered with node_buffer.
Frame(node_buffer, n) ==
    [node |-> n,
     node_buffer |-> Append(node_buffer, n),
     todo |-> Eligible(node_buffer, n)]

Top == stack[Len(stack)]

\* The caller's frame after the fold has taken its next dependency.
Advance == [stack EXCEPT ![Len(stack)].todo = Tail(@)]

\* The state after build_nodes, for a node list drawn from lists: every node
\* NotProcessed, nothing walked yet.
Loaded(lists) ==
    /\ nodes \in lists
    /\ dependencies \in {DependenciesOf(Range(nodes), E) :
                            E \in UpTo(Declarations(Range(nodes)), MaxEdges)}
    /\ iteration \in IterationOrders(dependencies)
    /\ state = [n \in Range(nodes) |-> NotProcessed]
    /\ copy = [n \in Range(nodes) |-> NotProcessed]
    /\ root = 0
    /\ pc = "start"
    /\ stack = <<>>
    /\ found = <<>>
    /\ inserted = 0
    /\ cycles = {}

\* The packages of a workspace in every order read_dir may list them.
Init == Loaded(UNION {Orders(W) : W \in Workspaces})

\* The packages of a workspace listed in name order. Nothing in the walk
\* compares names but for equality, so every run is one of these runs up to
\* the names of the packages.
InitSorted == Loaded({<<"A">>, <<"A", "B">>, <<"A", "B", "C">>})

\* flat_map has nothing left to yield from the current walk: no walk has run
\* yet, or every cycle of the last walk went into the set.
Drained == pc = "start" \/ (pc = "insert" /\ inserted = Len(found))

\* detect_cycles_all: the closure of flat_map for the next node of the list
\* clones nodes and calls detect_cycle(&clone, &mut Vec::new(), node) on the
\* node of the caller's list; the call takes the else branch, marks that node
\* and pushes it.
RootWalk ==
    /\ Drained
    /\ root < Len(nodes)
    /\ LET n == nodes[root + 1]
       IN  /\ ~IsCycle(state, <<>>, n)
           /\ copy' = state
           /\ state' = mark_processed(state, n)
           /\ stack' = <<Frame(<<>>, n)>>
    /\ root' = root + 1
    /\ found' = <<>>
    /\ inserted' = 0
    /\ pc' = "walk"
    /\ UNCHANGED <<nodes, dependencies, iteration, cycles>>

\* detect_cycle, cycle branch: the fold of the innermost open call takes its
\* next dependency, resolves it in the clone and calls detect_cycle with a
\* clone of the path stack; the node is processed and on the path stack, so
\* the call drains the path stack into a Cycle and returns it.
FoundCycle ==
    /\ pc = "walk"
    /\ stack # <<>>
    /\ Top.todo # <<>>
    /\ LET dep == Head(Top.todo)
       IN  /\ dep.name \in Range(nodes)
           /\ IsCycle(copy, Top.node_buffer, dep.name)
           /\ found' = Append(found, Top.node_buffer)
    /\ stack' = Advance
    /\ UNCHANGED <<nodes, dependencies, iteration, state, copy, root, pc,
                   inserted, cycles>>

\* detect_cycle, else branch: the called node is marked processed, pushed on
\* its clone of the path stack, and its fold starts.
Visit ==
    /\ pc = "walk"
    /\ stack # <<>>
    /\ Top.todo # <<>>
    /\ Len(Top.node_buffer) < MaxDepth
    /\ LET dep == Head(Top.todo)
       IN  /\ dep.name \in Range(nodes)
           /\ ~IsCycle(copy, Top.node_buffer, dep.name)
           /\ copy' = mark_processed(copy, dep.name)
           /\ stack' = Append(Advance, Frame(Top.node_buffer, dep.name))
    /\ UNCHANGED <<nodes, dependencies, iteration, state, root, pc, found,
                   inserted, cycles>>

\* detect_cycle: the fold of the innermost open call is over and the call
\* returns its cycles; when it is the root call, the walk is over.
Return ==
    /\ pc = "walk"
    /\ stack # <<>>
    /\ Top.todo = <<>>
    /\ stack' = SubSeq(stack, 1, Len(stack) - 1)
    /\ pc' = IF Len(stack) = 1 THEN "insert" ELSE "walk"
    /\ UNCHANGED <<nodes, dependencies, iteration, state, copy, root, found,
                   inserted, cycles>>

\* detect_cycles_all: collect inserts the next cycle of the walk.
Insert ==
    /\ pc = "insert"
    /\ inserted < Len(found)
    /\ \E collide \in BOOLEAN :
           cycles' = HashSetInsert(cycles, found[inserted + 1], collide)
    /\ inserted' = inserted + 1
    /\ UNCHANGED <<nodes, dependencies, iteration, state, copy, root, pc,
                   stack, found>>

\* detect_cycles_all: the node list is exhausted and collect returns the set.
Finish ==
    /\ Drained
    /\ root = Len(nodes)
    /\ pc' = "done"
    /\ UNCHANGED <<nodes, dependencies, iteration, state, copy, root, stack,
                   found, inserted, cycles>>

Next ==
    \/ RootWalk
    \/ FoundCycle
    \/ Visit
    \/ Return
    \/ Insert
    \/ Finish

Spec == Init /\ [][Next]_vars

\* The run is single-threaded and never waits: a step that can be taken is
\* taken.
FairSpec == Spec /\ WF_vars(Next)

SortedSpec == InitSorted /\ [][Next]_vars

FairSortedSpec == SortedSpec /\ WF_vars(Next)

\* ------------------------------------------- detect_cycle as a function
\* The value of detect_cycle(nodes, node_buffer, n) when the clone's marks are
\* st and the sets iterate as order says: the cycles returned, and the marks
\* of the clone afterwards. FoldValue is the value of the fold over todo.
RECURSIVE CallValue(_, _, _, _)
RECURSIVE FoldValue(_, _, _, _)
CallValue(order, st, node_buffer, n) ==
    IF IsCycle(st, node_buffer, n)
    THEN [cycles |-> <<node_buffer>>, st |-> st]
    ELSE FoldValue(order, mark_processed(st, n), Append(node_buffer, n),
                   EligibleIn(order, node_buffer, n))

FoldValue(order, st, node_buffer, todo) ==
    IF todo = <<>> THEN [cycles |-> <<>>, st |-> st]
    ELSE LET first == CallValue(order, st, node_buffer, Head(todo).name)
             rest == FoldValue(order, first.st, node_buffer, Tail(todo))
         IN  [cycles |-> first.cycles \o rest.cycles, st |-> rest.st]

\* The marks of the clone the i-th root walk gets: the roots walked before
\* it were marked in the caller's list, the clone's own root was not.
CloneAt(i) ==
    [n \in Range(nodes) |->
        IF \E j \in 1..(i - 1) : nodes[j] = n THEN Processed ELSE NotProcessed]

\* The cycles the i-th root walk returns: the root call marks the node of
\* the caller's list, so the clone goes into the fold unmarked.
WalkValue(order, i) ==
    FoldValue(order, CloneAt(i), <<nodes[i]>>,
              EligibleIn(order, <<>>, nodes[i])).cycles

\* Every cycle that flat_map yields to collect.
Yielded(order) == UNION {Range(WalkValue(order, i)) : i \in 1..Len(nodes)}

\* ------------------------------------------------------------ properties
\* The packages a cycle lists.
Members(c) == Range(c)

\* How often package p is listed in cycle c.
Count(c, p) == Cardinality({i \in 1..Len(c) : c[i] = p})

SameMultiset(a, b) == \A p \in Packages : Count(a, p) = Count(b, p)

NoRepeat(c) == \A i, j \in 1..Len(c) : c[i] = c[j] => i = j

\* The declared dependencies of the whole workspace as (from, name, dep_type).
Edges ==
    UNION {{[from |-> n, name |-> d.name, dep_type |-> d.dep_type] :
               d \in dependencies[n]} : n \in Range(nodes)}

Edge(a, t, b) == [from |-> a, name |-> b, dep_type |-> t]

\* The root walk has returned: found holds all its cycles.
Walked == pc = "insert"

\* The root of the current walk.
Root == nodes[root]

\* The step machine and the function agree on every walk.
WalkIsWalkValue == Walked => found = WalkValue(iteration, root)

\* The cap on the path stack never stops a walk.
DepthCapUnused ==
    \A i \in 1..Len(stack) : Len(stack[i].node_buffer) < MaxDepth

\* ------------------------------------------------------------------ C1
\* The workspace of two packages that depend on each other.
TwoPackageLoop ==
    /\ Range(nodes) = {"A", "B"}
    /\ Edges = {Edge("A", "Regular", "B"), Edge("B", "Regular", "A")}

\* C1: for the workspace of exactly the two packages A and B with the edges
\* A -Regular-> B and B -Regular-> A, detect_cycles_all returns exactly one
\* cycle, of exactly the two node entries A and B, in either order of the
\* node list.
C1_TwoPackageLoopIsOneCycleOfTwo ==
    (pc = "done" /\ TwoPackageLoop) =>
        /\ Cardinality(cycles) = 1
        /\ \A c \in cycles : Len(c) = 2 /\ Members(c) = {"A", "B"}

\* ------------------------------------------------------------------ C2
\* The workspace whose edges are the loop A -> B -> C -> A.
ThreePackageLoop ==
    Edges = {Edge("A", "Regular", "B"), Edge("B", "Regular", "C"),
             Edge("C", "Regular", "A")}

\* C2: for the workspace whose only edges are the Regular edges A -> B,
\* B -> C and C -> A, the cycles of the walks from A, from B and from C
\* collapse to exactly one cycle in the set detect_cycles_all returns.
C2_RotationsCollapse ==
    (pc = "done" /\ ThreePackageLoop) => Cardinality(cycles) = 1

\* ------------------------------------------------------------------ C3
\* The workspace whose edges are A -Dev-> B, B -Regular-> C, C -Regular-> A.
DevLoop ==
    Edges = {Edge("A", "Dev", "B"), Edge("B", "Regular", "C"),
             Edge("C", "Regular", "A")}

\* C3: in the workspace with the edges A -Dev-> B, B -Regular-> C and
\* C -Regular-> A, the root walks from B and from C report no cycle, and the
\* root walk from A reports the cycle through A, B and C.
C3_DevEdgeFollowedAtRootOnly ==
    (Walked /\ DevLoop) =>
        /\ Root \in {"B", "C"} => found = <<>>
        /\ Root = "A" =>
              \E i \in 1..Len(found) : Members(found[i]) = {"A", "B", "C"}

\* ------------------------------------------------------------------ C4
\* C4: when the only edge of the workspace is a dependency of a package on
\* itself, of any dependency type, detect_cycles_all reports a cycle of
\* exactly one node entry, that package.
C4_SelfDependencyIsOneNodeCycle ==
    \A p \in Range(nodes), t \in DependencyType :
        (pc = "done" /\ Edges = {Edge(p, t, p)}) => <<p>> \in cycles

\* ------------------------------------------------------------------ C5
\* Package a has a Regular or Build dependency on package b.
Builds(a, b) ==
    \E d \in dependencies[a] :
        d.name = b /\ d.dep_type \in {"Regular", "Build"}

\* The directed loops of Regular and Build edges through package r: the
\* packages of the loop, each once, from r on; a self-edge is a loop of one.
LoopsThrough(r) ==
    {l \in UNION {Orders(S) : S \in {T \in SUBSET Range(nodes) : r \in T}} :
        /\ l[1] = r
        /\ \A i \in 1..Len(l) : Builds(l[i], l[(i % Len(l)) + 1])}

\* C5: for every directed loop of Regular and Build edges, the root walk
\* from a package of the loop returns a cycle that lists every package of the
\* loop, whatever the other edges and the iteration orders are.
C5_LoopThroughRootIsReported ==
    Walked =>
        \A l \in LoopsThrough(Root) :
            \E i \in 1..Len(found) : Range(l) \subseteq Members(found[i])

\* A walk has returned whose root is on a loop of two packages, has another
\* dependency besides, and is not the first root of the list.
C5_Witness ==
    /\ Walked
    /\ root > 1
    /\ \E l \in LoopsThrough(Root) : Len(l) = 2
    /\ Cardinality(dependencies[Root]) > 1

\* ------------------------------------------------------------------ C6
\* C6: two cycles compare equal with Cycle::eq exactly when they list the
\* same multiset of packages.
C6_CycleEqIsMultisetEq ==
    \A a, b \in cycles \cup Range(found) : CycleEq(a, b) <=> SameMultiset(a, b)

\* ------------------------------------------------------------------ C7
\* No two different cycles collided in the set: it holds every cycle yielded.
NoCollision == cycles = Yielded(iteration)

\* C7: the packages of the cycles detect_cycles_all returns are the same for
\* every order in which the dependency sets may iterate.
C7_IterationOrderIrrelevant ==
    (pc = "done" /\ NoCollision) =>
        \A order \in IterationOrders(dependencies) :
            {Members(c) : c \in Yielded(order)} = {Members(c) : c \in cycles}

\* ------------------------------------------------------------------ C8
\* The root call of a walk has pushed its node and its fold has not started.
WalkStarts ==
    /\ pc = "walk"
    /\ Len(stack) = 1
    /\ found = <<>>
    /\ stack[1].todo = Eligible(<<>>, stack[1].node)

\* C8: at the start of every root walk the path stack is empty (the root is
\* the only node pushed) and every node of the clone is NotProcessed.
C8_WalkStartsOnFreshClone ==
    WalkStarts =>
        /\ stack[1].node_buffer = <<stack[1].node>>
        /\ \A n \in Range(nodes) : copy[n] = NotProcessed

\* ------------------------------------------------------------------ C9
\* C9: every root walk terminates, so detect_cycles_all returns.
C9_Terminates == <>(pc = "done")

\* detect_cycles_all has returned for a workspace with a self-edge and two
\* packages that depend on each other.
C9_Witness ==
    /\ pc = "done"
    /\ \E a \in Range(nodes) : Builds(a, a)
    /\ \E a, b \in Range(nodes) : a # b /\ Builds(a, b) /\ Builds(b, a)

\* ----------------------------------------------------------------- C10
\* C10: the path stack of every open call holds each package at most once,
\* and no cycle lists a package twice.
C10_PathStackHoldsPackageOnce ==
    /\ \A i \in 1..Len(stack) : NoRepeat(stack[i].node_buffer)
    /\ \A c \in cycles \cup Range(found) : NoRepeat(c)

====
